---- MODULE Spec2Model ----
(***************************************************************************)
(* Tandem: booking coordination over the Supabase store.                   *)
(*                                                                         *)
(* The store (tables resources, bookings, booking_history with the partial *)
(* unique index of V1_initial_schema.sql) is shared by browser sessions    *)
(* running BookingForm handlers, by admin sessions running handleDelete    *)
(* and by invocations of the plpgsql function                              *)
(* auto_release_expired_bookings().  Every `await supabase...` is one      *)
(* store call and one step; other callers interleave between the steps.    *)
(***************************************************************************)
EXTENDS Integers, Sequences, FiniteSets, TLC

\* ---------------------------------------------------------------- bounds
MaxTime == 1
MaxBookings == 3
MaxHistory == 4
MaxFailures == 1
MaxCalls == 3
MaxRuns == 2
MaxTriggers == 2

Sessions == {"s1", "s2"}
Sweepers == {"w1", "w2"}
Admins == {"a1"}
ResourceIds == {1, 2}

\* the names the admin gives to the resources, in the order of creation
AdminNames == <<"r1", "r2">>

\* the names of the build triggers of the GCP project
TriggerNames == {"r1", "r2"}

\* SQL NULL of a timestamp column / of a text column
NULL == -1
NullText == <<"NULL">>

\* what the users type into the form fields
NameInputs == {<<"a">>}
BranchInputs == {<<" ", "x">>}
NotesInputs == {<<>>}
LinkInputs == {<<>>}
ExpiryInputs == 0..(MaxTime + 1)

\* ---------------------------------------------------------------- state
VARIABLES
  now,        \* wall clock: NOW() of the store, new Date() of the clients
  failures,   \* number of store calls that returned an error so far
  calls,      \* number of handler and sweep invocations so far
  resources,  \* table public.resources: id -> row, for the ids created
  bookings,   \* table public.bookings: sequence of rows, id = position
  history,    \* table public.booking_history: sequence of rows
  pc,         \* session -> position in the BookingForm handlers
  view,       \* session -> the `resource` prop of its BookingForm
  form,       \* session -> form state captured by the running handler
  error,      \* session -> the `error` state of its BookingForm
  wpc,        \* sweeper -> position in auto_release_expired_bookings()
  cursor,     \* sweeper -> rows of the FOR ... SELECT still in the loop
  wnow,       \* sweeper -> NOW() of its transaction
  ret,        \* sweeper -> what its last call returned
  apc,        \* admin -> position in handleDelete
  atarget,    \* admin -> the resource handleDelete was called with
  adeleted,   \* admin -> the `deletedBookings` it selected
  triggers,   \* what fetchBuildTriggers() returns: the triggers' names
  spc,        \* position in syncTriggersToResources
  si,         \* index of `trigger` in the for loop
  result,     \* the `result` of the run under way
  returned    \* the results that the finished runs returned, in order

vars == <<now, failures, calls, resources, bookings, history, pc, view, form, error,
          wpc, cursor, wnow, ret, apc, atarget, adeleted,
          triggers, spc, si, result, returned>>

sessVars == <<pc, view, form, error>>
sweepVars == <<wpc, cursor, wnow, ret>>
adminVars == <<apc, atarget, adeleted>>
syncVars == <<triggers, spc, si, result, returned>>

\* ---------------------------------------------------------------- text
RECURSIVE TrimLeft(_)
TrimLeft(t) ==
  IF t = <<>> THEN <<>>
  ELSE IF Head(t) = " " THEN TrimLeft(Tail(t)) ELSE t

RECURSIVE TrimRight(_)
TrimRight(t) ==
  IF t = <<>> THEN <<>>
  ELSE IF t[Len(t)] = " " THEN TrimRight(SubSeq(t, 1, Len(t) - 1)) ELSE t

\* faulty variant: the text is tested and stored untrimmed
TrimNothing(t) == t

\* String.prototype.trim on the modelled alphabet
Trim(t) == TrimRight(TrimLeft(t))

\* `x || null`
OrNull(t) == IF t = <<>> \/ t = NullText THEN NullText ELSE t

\* ---------------------------------------------------------------- store
\* glossary "active": released_at IS NULL AND deleted_at IS NULL
IsActive(b) == b.released_at = NULL /\ b.deleted_at = NULL

ActiveOf(bks, r) == {i \in DOMAIN bks : bks[i].resource_id = r /\ IsActive(bks[i])}

\* faulty variants of the index, against which the properties are tested:
\* the index is not created
UniqueIndexAbsent(bks, r) == TRUE

\* the index is created without its WHERE clause
UniqueIndexUnfiltered(bks, r) ==
  ~ \E i \in DOMAIN bks : bks[i].resource_id = r

\* the index also requires expires_at > NOW()
UniqueIndexUnexpired(bks, r) ==
  ~ \E i \in DOMAIN bks :
      bks[i].resource_id = r /\ bks[i].released_at = NULL /\ bks[i].expires_at > now

\* CREATE UNIQUE INDEX unique_active_booking_per_resource
\*   ON bookings(resource_id) WHERE released_at IS NULL
UniqueIndexAllows(bks, r) ==
  ~ \E i \in DOMAIN bks : bks[i].resource_id = r /\ bks[i].released_at = NULL

HistoryRow(bid, action, rid, by, branch, notes, link, exp, rel) ==
  [booking_id |-> bid, action |-> action, resource_id |-> rid,
   booked_by |-> by, branch |-> branch, notes |-> notes, build_link |-> link,
   expires_at |-> exp, released_at |-> rel]

\* a store call answers, or returns an error (`{ data, error }`)
StoreCall(fail) ==
  /\ fail => failures < MaxFailures
  /\ failures' = IF fail THEN failures + 1 ELSE failures

\* a handler or the sweep function is invoked
Invoke == calls < MaxCalls /\ calls' = calls + 1

\* ---------------------------------------------------------------- init
NoView == [id |-> 0, status |-> "FREE", current_booking |-> <<>>]
NoForm == [bookedBy |-> <<>>, branch |-> <<>>, notes |-> <<>>,
           buildLink |-> <<>>, expiresAt |-> 0, now |-> 0, booking |-> 0]

\* SyncResult with nothing counted
ZeroResult == [success |-> 0, skipped |-> 0, errors |-> <<>>]

Init ==
  /\ now = 0
  /\ failures = 0
  /\ calls = 0
  /\ resources = <<>>
  /\ bookings = <<>>
  /\ history = <<>>
  /\ pc = [s \in Sessions |-> "idle"]
  /\ view = [s \in Sessions |-> NoView]
  /\ form = [s \in Sessions |-> NoForm]
  /\ error = [s \in Sessions |-> "none"]
  /\ wpc = [w \in Sweepers |-> "idle"]
  /\ cursor = [w \in Sweepers |-> <<>>]
  /\ wnow = [w \in Sweepers |-> 0]
  /\ ret = [w \in Sweepers |-> {}]
  /\ apc = [a \in Admins |-> "idle"]
  /\ atarget = [a \in Admins |-> 0]
  /\ adeleted = [a \in Admins |-> <<>>]
  /\ triggers = <<>>
  /\ spc = "idle"
  /\ si = 0
  /\ result = ZeroResult
  /\ returned = <<>>

\* ---------------------------------------------------------------- clock
Tick ==
  /\ now < MaxTime
  /\ now' = now + 1
  /\ UNCHANGED <<failures, calls, resources, bookings, history, sessVars, sweepVars, adminVars, syncVars>>

\* ---------------------------------------------------------------- admin
\* name TEXT NOT NULL UNIQUE: an insert of the name is refused
NameTaken(res, name) == \E i \in DOMAIN res : res[i].name = name

\* Admin.handleSubmit, create branch: insert into resources, which the
\* store executes when the name is free
CreateResource ==
  /\ Len(resources) < Cardinality(ResourceIds)
  /\ ~NameTaken(resources, AdminNames[Len(resources) + 1])
  /\ resources' = Append(resources,
       [name |-> AdminNames[Len(resources) + 1], deleted_at |-> NULL])
  /\ UNCHANGED <<now, failures, calls, bookings, history, sessVars, sweepVars, adminVars, syncVars>>

\* ---------------------------------------------------------------- dashboard
\* a bookings row as the client receives it
Row(bks, i) ==
  [id |-> i, resource_id |-> bks[i].resource_id, booked_by |-> bks[i].booked_by,
   branch |-> bks[i].branch, notes |-> bks[i].notes,
   build_link |-> bks[i].build_link, expires_at |-> bks[i].expires_at,
   released_at |-> bks[i].released_at]

\* faulty variant of the query: the expires_at filter is left out
CurrentIdsNoExpiry(bks, t) == {i \in DOMAIN bks : IsActive(bks[i])}

\* the bookings query of fetchResources:
\*   released_at IS NULL, deleted_at IS NULL, expires_at > now
CurrentIds(bks, t) ==
  {i \in DOMAIN bks : IsActive(bks[i]) /\ bks[i].expires_at > t}

\* bookingsData.find(b => b.resource_id === resource.id)
FindBooking(bks, t, r) ==
  LET hits == {i \in CurrentIds(bks, t) : bks[i].resource_id = r}
  IN IF hits = {} THEN <<>>
     ELSE <<Row(bks, CHOOSE i \in hits : \A j \in hits : i <= j)>>

\* one element of resourcesWithBookings
Project(bks, t, r) ==
  LET booking == FindBooking(bks, t, r)
  IN [id |-> r,
      status |-> IF booking # <<>> THEN "LOCKED" ELSE "FREE",
      current_booking |-> booking]

\* Dashboard.fetchResources, then handleResourceClick on one of the listed
\* resources: the BookingForm is mounted with that element as its prop
fetchResources(s, r) ==
  /\ pc[s] = "idle"
  /\ r \in DOMAIN resources
  /\ resources[r].deleted_at = NULL
  /\ view' = [view EXCEPT ![s] = Project(bookings, now, r)]
  /\ pc' = [pc EXCEPT ![s] = "form"]
  /\ error' = [error EXCEPT ![s] = "none"]
  /\ UNCHANGED <<now, failures, calls, resources, bookings, history, form, sweepVars, adminVars, syncVars>>

\* BookingForm onClose
onClose(s) ==
  /\ pc[s] = "form"
  /\ pc' = [pc EXCEPT ![s] = "idle"]
  /\ view' = [view EXCEPT ![s] = NoView]
  /\ form' = [form EXCEPT ![s] = NoForm]
  /\ error' = [error EXCEPT ![s] = "none"]
  /\ UNCHANGED <<now, failures, calls, resources, bookings, history, sweepVars, adminVars, syncVars>>

\* onSuccess = Dashboard.handleBookingSuccess: refetch and close the form
onSuccess(s) ==
  /\ pc' = [pc EXCEPT ![s] = "idle"]
  /\ view' = [view EXCEPT ![s] = NoView]
  /\ form' = [form EXCEPT ![s] = NoForm]

CurrentBooking(s) == view[s].current_booking[1]

\* ---------------------------------------------------------------- realtime
\* Dashboard.subscribeToChanges: the handlers of the bookings channel, on
\* one element `resource` of the list that fetchResources has set.
\* event INSERT: payload.new is the new row
onBookingInsert(resource, newBooking) ==
  IF resource.id = newBooking.resource_id
  THEN [resource EXCEPT !.current_booking = <<newBooking>>, !.status = "LOCKED"]
  ELSE resource

\* event UPDATE: payload.new is the row after the update
onBookingUpdate(resource, updatedBooking) ==
  IF resource.id = updatedBooking.resource_id
  THEN IF updatedBooking.released_at # NULL
       THEN [resource EXCEPT !.current_booking = <<>>, !.status = "FREE"]
       ELSE [resource EXCEPT !.current_booking = <<updatedBooking>>,
                             !.status = "LOCKED"]
  ELSE resource

\* the rows of bookings for which a write from bks to next is notified:
\* the inserted rows and the rows whose values an update changed
NotifiedIds(bks, next) ==
  {i \in DOMAIN next : i \notin DOMAIN bks \/ next[i] # bks[i]}

\* the list element after the notifications of the write from bks to next
\* have been applied one at a time, in the order q of their rows
RECURSIVE Deliver(_, _, _, _)
Deliver(resource, bks, next, q) ==
  IF q = <<>> THEN resource
  ELSE Deliver(IF Head(q) \in DOMAIN bks
               THEN onBookingUpdate(resource, Row(next, Head(q)))
               ELSE onBookingInsert(resource, Row(next, Head(q))),
               bks, next, Tail(q))

\* ---------------------------------------------------------------- book
\* The client-side prefix of a handler (validation, `new Date()`, building
\* the request from the form state) reads nothing another caller writes, so
\* it is taken in the same step as the handler's first store call.

\* faulty variant of the insert: the branch is stored as typed
NewBookingUntrimmed(r, bookedBy, branch, notes, buildLink, expiresAt) ==
  [resource_id |-> r,
   booked_by |-> Trim(bookedBy),
   branch |-> branch,
   notes |-> OrNull(Trim(notes)),
   build_link |-> OrNull(Trim(buildLink)),
   expires_at |-> expiresAt,
   released_at |-> NULL,
   deleted_at |-> NULL]

\* the row of the insert into bookings
NewBooking(r, bookedBy, branch, notes, buildLink, expiresAt) ==
  [resource_id |-> r,
   booked_by |-> Trim(bookedBy),
   branch |-> Trim(branch),
   notes |-> OrNull(Trim(notes)),
   build_link |-> OrNull(Trim(buildLink)),
   expires_at |-> expiresAt,
   released_at |-> NULL,
   deleted_at |-> NULL]

\* handleBook: validation, then the store executes the insert into bookings
handleBook(s, bookedBy, branch, notes, buildLink, expiresAt) ==
  /\ pc[s] = "form"
  /\ view[s].status = "FREE"
  /\ IF Trim(bookedBy) = <<>> \/ Trim(branch) = <<>>
     THEN /\ error' = [error EXCEPT ![s] = "required"]
          /\ UNCHANGED <<calls, pc, form, bookings>>
     ELSE IF ~UniqueIndexAllows(bookings, view[s].id)
     THEN /\ Invoke
          /\ error' = [error EXCEPT ![s] = "conflict"]
          /\ UNCHANGED <<pc, form, bookings>>
     ELSE /\ Invoke
          /\ Len(bookings) < MaxBookings
          /\ bookings' = Append(bookings,
               NewBooking(view[s].id, bookedBy, branch, notes, buildLink, expiresAt))
          /\ form' = [form EXCEPT ![s] =
               [bookedBy |-> bookedBy, branch |-> branch, notes |-> notes,
                buildLink |-> buildLink, expiresAt |-> expiresAt,
                now |-> 0, booking |-> Len(bookings) + 1]]
          /\ pc' = [pc EXCEPT ![s] = "book_history"]
          /\ error' = [error EXCEPT ![s] = "none"]
  /\ UNCHANGED <<now, failures, resources, history, view, sweepVars, adminVars, syncVars>>

\* the store executes the insert into booking_history; its result is dropped
BookHistory(s, fail) ==
  /\ pc[s] = "book_history"
  /\ StoreCall(fail)
  /\ IF fail
     THEN UNCHANGED history
     ELSE /\ Len(history) < MaxHistory
          /\ history' = Append(history,
               HistoryRow(form[s].booking, "BOOK", view[s].id,
                          Trim(form[s].bookedBy), Trim(form[s].branch),
                          OrNull(Trim(form[s].notes)),
                          OrNull(Trim(form[s].buildLink)),
                          form[s].expiresAt, NULL))
  /\ onSuccess(s)
  /\ UNCHANGED <<now, calls, resources, bookings, error, sweepVars, adminVars, syncVars>>

\* ---------------------------------------------------------------- release
\* faulty variant of the update: its filter matches no row
UpdateReleasedNothing(bks, id, t) == bks

\* UPDATE bookings SET released_at = :now WHERE id = :id
UpdateReleased(bks, id, t) == [bks EXCEPT ![id].released_at = t]

\* handleRelease: `now` is taken and the store executes the update, whose
\* result is dropped
handleRelease(s, fail) ==
  /\ pc[s] = "form"
  /\ StoreCall(fail)
  /\ Invoke
  /\ view[s].current_booking # <<>>
  /\ error' = [error EXCEPT ![s] = "none"]
  /\ form' = [form EXCEPT ![s].now = now]
  /\ bookings' = IF fail THEN bookings
                 ELSE UpdateReleased(bookings, CurrentBooking(s).id, now)
  /\ pc' = [pc EXCEPT ![s] = "release_history"]
  /\ UNCHANGED <<now, resources, history, view, sweepVars, adminVars, syncVars>>

\* the store executes the insert into booking_history; its result is dropped
ReleaseHistory(s, fail) ==
  /\ pc[s] = "release_history"
  /\ StoreCall(fail)
  /\ IF fail
     THEN UNCHANGED history
     ELSE /\ Len(history) < MaxHistory
          /\ history' = Append(history,
               HistoryRow(CurrentBooking(s).id, "RELEASE", view[s].id,
                          CurrentBooking(s).booked_by, CurrentBooking(s).branch,
                          OrNull(CurrentBooking(s).notes),
                          OrNull(CurrentBooking(s).build_link),
                          CurrentBooking(s).expires_at, form[s].now))
  /\ onSuccess(s)
  /\ UNCHANGED <<now, calls, resources, bookings, error, sweepVars, adminVars, syncVars>>

\* ---------------------------------------------------------------- extend
\* faulty variant of the update: its filter on id is left out
UpdateExpiresUnfiltered(bks, id, t) ==
  [i \in DOMAIN bks |-> [bks[i] EXCEPT !.expires_at = t]]

\* faulty variant of the update: an earlier expires_at is not taken
UpdateExpiresLater(bks, id, t) ==
  IF t > bks[id].expires_at THEN [bks EXCEPT ![id].expires_at = t] ELSE bks

\* UPDATE bookings SET expires_at = :expiresAt WHERE id = :id
UpdateExpires(bks, id, t) == [bks EXCEPT ![id].expires_at = t]

\* handleExtend: the store executes the update with the form's date; its
\* result is dropped
handleExtend(s, expiresAt, fail) ==
  /\ pc[s] = "form"
  /\ StoreCall(fail)
  /\ Invoke
  /\ view[s].current_booking # <<>>
  /\ error' = [error EXCEPT ![s] = "none"]
  /\ form' = [form EXCEPT ![s].expiresAt = expiresAt]
  /\ bookings' = IF fail THEN bookings
                 ELSE UpdateExpires(bookings, CurrentBooking(s).id, expiresAt)
  /\ pc' = [pc EXCEPT ![s] = "extend_history"]
  /\ UNCHANGED <<now, resources, history, view, sweepVars, adminVars, syncVars>>

ExtendHistory(s, fail) ==
  /\ pc[s] = "extend_history"
  /\ StoreCall(fail)
  /\ IF fail
     THEN UNCHANGED history
     ELSE /\ Len(history) < MaxHistory
          /\ history' = Append(history,
               HistoryRow(CurrentBooking(s).id, "EXTEND", view[s].id,
                          CurrentBooking(s).booked_by, CurrentBooking(s).branch,
                          OrNull(CurrentBooking(s).notes),
                          OrNull(CurrentBooking(s).build_link),
                          form[s].expiresAt, NULL))
  /\ onSuccess(s)
  /\ UNCHANGED <<now, calls, resources, bookings, error, sweepVars, adminVars, syncVars>>

\* ---------------------------------------------------------------- edit
\* faulty variant of the update: the form's copy of the row, read while
\* the booking was active, is written back with its released_at
UpdateDetailsReopens(bks, id, branch, notes, link) ==
  [bks EXCEPT ![id].branch = branch, ![id].notes = notes, ![id].build_link = link,
              ![id].released_at = NULL]

\* UPDATE bookings SET branch, notes, build_link WHERE id = :id
UpdateDetails(bks, id, branch, notes, link) ==
  [bks EXCEPT ![id].branch = branch, ![id].notes = notes, ![id].build_link = link]

\* handleEdit: validation, then the store executes the update, whose result
\* is dropped
handleEdit(s, branch, notes, buildLink, fail) ==
  /\ pc[s] = "form"
  /\ view[s].current_booking # <<>>
  /\ IF Trim(branch) = <<>>
     THEN ~fail /\ UNCHANGED <<failures, calls>>
     ELSE StoreCall(fail) /\ Invoke
  /\ IF Trim(branch) = <<>>
     THEN /\ error' = [error EXCEPT ![s] = "required"]
          /\ UNCHANGED <<pc, form, bookings>>
     ELSE /\ error' = [error EXCEPT ![s] = "none"]
          /\ form' = [form EXCEPT ![s].branch = branch, ![s].notes = notes,
                                  ![s].buildLink = buildLink]
          /\ bookings' = IF fail THEN bookings
                         ELSE UpdateDetails(bookings, CurrentBooking(s).id,
                                            Trim(branch), OrNull(Trim(notes)),
                                            OrNull(Trim(buildLink)))
          /\ pc' = [pc EXCEPT ![s] = "edit_history"]
  /\ UNCHANGED <<now, resources, history, view, sweepVars, adminVars, syncVars>>

EditHistory(s, fail) ==
  /\ pc[s] = "edit_history"
  /\ StoreCall(fail)
  /\ IF fail
     THEN UNCHANGED history
     ELSE /\ Len(history) < MaxHistory
          /\ history' = Append(history,
               HistoryRow(CurrentBooking(s).id, "EDIT", view[s].id,
                          CurrentBooking(s).booked_by, Trim(form[s].branch),
                          OrNull(Trim(form[s].notes)),
                          OrNull(Trim(form[s].buildLink)),
                          CurrentBooking(s).expires_at, NULL))
  /\ onSuccess(s)
  /\ UNCHANGED <<now, calls, resources, bookings, error, sweepVars, adminVars, syncVars>>

\* ---------------------------------------------------------------- sweep
\* the orders in which a SELECT without ORDER BY may return the rows ids
Orders(ids) ==
  {q \in [1..Cardinality(ids) -> ids] :
     \A i, j \in 1..Cardinality(ids) : i # j => q[i] # q[j]}

\* faulty variant of the query: a booking is selected only after its
\* expires_at, not at it
ExpiredIdsStrict(bks, t) ==
  {i \in DOMAIN bks : bks[i].released_at = NULL /\ bks[i].expires_at < t}

\* SELECT * FROM bookings WHERE released_at IS NULL AND expires_at <= NOW()
ExpiredIds(bks, t) ==
  {i \in DOMAIN bks : bks[i].released_at = NULL /\ bks[i].expires_at <= t}

\* the transaction starts: NOW() is fixed and the FOR query is opened
SweepOpen(w) ==
  /\ wpc[w] = "idle"
  /\ \E q \in Orders(ExpiredIds(bookings, now)) :
       cursor' = [cursor EXCEPT ![w] = [k \in DOMAIN q |-> Row(bookings, q[k])]]
  /\ wnow' = [wnow EXCEPT ![w] = now]
  /\ wpc' = [wpc EXCEPT ![w] = "loop"]
  /\ UNCHANGED <<now, failures, resources, bookings, history, ret, sessVars, adminVars, syncVars>>

\* SELECT auto_release_expired_bookings(), one of the calls under way
SweepSelect(w) == Invoke /\ SweepOpen(w)

\* UPDATE bookings SET released_at = NOW() WHERE id = expired_booking.id
SweepUpdate(bks, id, t) == [bks EXCEPT ![id].released_at = t]

\* the VALUES of the INSERT INTO booking_history of the loop body
ExpiredRow(expired_booking, t) ==
  HistoryRow(expired_booking.id, "EXPIRED", expired_booking.resource_id,
             expired_booking.booked_by, expired_booking.branch,
             expired_booking.notes, expired_booking.build_link,
             expired_booking.expires_at, t)

\* faulty variant of the loop: it is left after its first row
SweepLoopFirstOnly(bks, hist, cur, t) ==
  IF cur = <<>> THEN <<bks, hist>>
  ELSE <<SweepUpdate(bks, Head(cur).id, t), Append(hist, ExpiredRow(Head(cur), t))>>

\* faulty variant of the loop: the booking's history rows are rewritten
\* in place instead of a row being inserted
SweepLoopRewrites(bks, hist, cur, t) ==
  <<[i \in DOMAIN bks |->
       IF \E k \in DOMAIN cur : cur[k].id = i
       THEN [bks[i] EXCEPT !.released_at = t] ELSE bks[i]],
    [k \in DOMAIN hist |->
       IF \E j \in DOMAIN cur : cur[j].id = hist[k].booking_id
       THEN [hist[k] EXCEPT !.action = "EXPIRED", !.released_at = t]
       ELSE hist[k]]>>

\* faulty variant of the loop: the updates are kept and the inserts lost
SweepLoopUpdatesOnly(bks, hist, cur, t) ==
  <<[i \in DOMAIN bks |->
       IF \E k \in DOMAIN cur : cur[k].id = i
       THEN [bks[i] EXCEPT !.released_at = t] ELSE bks[i]],
    hist>>

\* the LOOP over the rows of the FOR query: <<bookings, booking_history>>
RECURSIVE SweepLoop(_, _, _, _)
SweepLoop(bks, hist, cur, t) ==
  IF cur = <<>> THEN <<bks, hist>>
  ELSE SweepLoop(SweepUpdate(bks, Head(cur).id, t),
                 Append(hist, ExpiredRow(Head(cur), t)),
                 Tail(cur), t)

\* RETURNS void
SweepResult(cur) == {}

\* the loop has run and the transaction commits
SweepCommit(w) ==
  /\ wpc[w] = "loop"
  /\ Len(history) + Len(cursor[w]) <= MaxHistory
  /\ LET done == SweepLoop(bookings, history, cursor[w], wnow[w])
     IN /\ bookings' = done[1]
        /\ history' = done[2]
  /\ ret' = [ret EXCEPT ![w] = SweepResult(cursor[w])]
  /\ wpc' = [wpc EXCEPT ![w] = "idle"]
  /\ cursor' = [cursor EXCEPT ![w] = <<>>]
  /\ wnow' = [wnow EXCEPT ![w] = 0]
  /\ UNCHANGED <<now, failures, calls, resources, sessVars, adminVars, syncVars>>

\* a statement of the function fails: the transaction is rolled back
SweepAbort(w) ==
  /\ wpc[w] = "loop"
  /\ cursor[w] # <<>>
  /\ StoreCall(TRUE)
  /\ wpc' = [wpc EXCEPT ![w] = "idle"]
  /\ cursor' = [cursor EXCEPT ![w] = <<>>]
  /\ wnow' = [wnow EXCEPT ![w] = 0]
  /\ UNCHANGED <<now, calls, resources, bookings, history, ret, sessVars, adminVars, syncVars>>

\* ---------------------------------------------------------------- delete
\* Admin.handleDelete up to the result of its first query: refuse a
\* resource with active bookings
handleDelete(a, r) ==
  /\ apc[a] = "idle"
  /\ Invoke
  /\ r \in DOMAIN resources
  /\ IF ActiveOf(bookings, r) # {}
     THEN UNCHANGED <<apc, atarget>>
     ELSE /\ apc' = [apc EXCEPT ![a] = "resource"]
          /\ atarget' = [atarget EXCEPT ![a] = r]
  /\ UNCHANGED <<now, failures, resources, bookings, history, adeleted, sessVars, sweepVars, syncVars>>

AdminThrow(a) ==
  /\ apc' = [apc EXCEPT ![a] = "idle"]
  /\ atarget' = [atarget EXCEPT ![a] = 0]

\* UPDATE resources SET deleted_at = :now WHERE id = :id
DeleteResource(a, fail) ==
  /\ apc[a] = "resource"
  /\ StoreCall(fail)
  /\ IF fail
     THEN AdminThrow(a) /\ UNCHANGED resources
     ELSE /\ resources' = [resources EXCEPT ![atarget[a]].deleted_at = now]
          /\ apc' = [apc EXCEPT ![a] = "bookings"]
          /\ UNCHANGED atarget
  /\ UNCHANGED <<now, calls, bookings, history, adeleted, sessVars, sweepVars, syncVars>>

\* faulty variant of the delete: the bookings of the resource are removed,
\* DELETE FROM bookings WHERE resource_id = :id
HardDeleteBookings(bks, r, t) ==
  LET Keeps(b) == b.resource_id # r
  IN SelectSeq(bks, Keeps)

\* UPDATE bookings SET deleted_at = :now
\*   WHERE resource_id = :id AND deleted_at IS NULL
SoftDeleteBookings(bks, r, t) ==
  [i \in DOMAIN bks |->
     IF bks[i].resource_id = r /\ bks[i].deleted_at = NULL
     THEN [bks[i] EXCEPT !.deleted_at = t] ELSE bks[i]]

DeleteBookings(a, fail) ==
  /\ apc[a] = "bookings"
  /\ StoreCall(fail)
  /\ IF fail
     THEN AdminThrow(a) /\ UNCHANGED bookings
     ELSE /\ bookings' = SoftDeleteBookings(bookings, atarget[a], now)
          /\ apc' = [apc EXCEPT ![a] = "select"]
          /\ UNCHANGED atarget
  /\ UNCHANGED <<now, calls, resources, history, adeleted, sessVars, sweepVars, syncVars>>

\* SELECT * FROM bookings WHERE resource_id = :id AND deleted_at IS NOT NULL
DeletedIds(bks, r) ==
  {i \in DOMAIN bks : bks[i].resource_id = r /\ bks[i].deleted_at # NULL}

AdminDone(a) ==
  /\ apc' = [apc EXCEPT ![a] = "idle"]
  /\ atarget' = [atarget EXCEPT ![a] = 0]
  /\ adeleted' = [adeleted EXCEPT ![a] = <<>>]

DeleteSelect(a) ==
  /\ apc[a] = "select"
  /\ IF DeletedIds(bookings, atarget[a]) = {}
     THEN AdminDone(a)
     ELSE /\ \E q \in Orders(DeletedIds(bookings, atarget[a])) :
               adeleted' = [adeleted EXCEPT ![a] =
                              [k \in DOMAIN q |-> Row(bookings, q[k])]]
          /\ apc' = [apc EXCEPT ![a] = "log"]
          /\ UNCHANGED atarget
  /\ UNCHANGED <<now, failures, calls, resources, bookings, history, sessVars, sweepVars, syncVars>>

\* historyEntries = deletedBookings.map(...)
DeleteRows(deletedBookings) ==
  [k \in DOMAIN deletedBookings |->
     HistoryRow(deletedBookings[k].id, "DELETE", deletedBookings[k].resource_id,
                deletedBookings[k].booked_by, deletedBookings[k].branch,
                deletedBookings[k].notes, deletedBookings[k].build_link,
                deletedBookings[k].expires_at, deletedBookings[k].released_at)]

\* the store executes the insert of historyEntries; its result is dropped
DeleteHistory(a, fail) ==
  /\ apc[a] = "log"
  /\ StoreCall(fail)
  /\ IF fail
     THEN UNCHANGED history
     ELSE /\ Len(history) + Len(adeleted[a]) <= MaxHistory
          /\ history' = history \o DeleteRows(adeleted[a])
  /\ AdminDone(a)
  /\ UNCHANGED <<now, calls, resources, bookings, sessVars, sweepVars, syncVars>>

\* ---------------------------------------------------------------- sync
\* .from('resources').select('id').eq('name', name).is('deleted_at', null)
\*   .single() returns a row
ExistingResource(res, name) ==
  \E i \in DOMAIN res : res[i].name = name /\ res[i].deleted_at = NULL

\* syncTriggersToResources up to the result of fetchBuildTriggers(): with
\* no trigger the run returns with an error, else the loop is entered
syncTriggersToResources ==
  /\ spc = "idle"
  /\ Len(returned) < MaxRuns
  /\ IF triggers = <<>>
     THEN /\ returned' = Append(returned,
               [ZeroResult EXCEPT !.errors = <<"no triggers">>])
          /\ UNCHANGED <<spc, si, result>>
     ELSE /\ spc' = "check"
          /\ si' = 1
          /\ result' = ZeroResult
          /\ UNCHANGED returned
  /\ UNCHANGED <<now, failures, calls, resources, bookings, history, triggers,
                 sessVars, sweepVars, adminVars>>

\* `continue`, or the end of the loop body, with the counts in r: the next
\* trigger, or `return result` after the last one
SyncContinue(r) ==
  IF si = Len(triggers)
  THEN /\ returned' = Append(returned, r)
       /\ spc' = "idle"
       /\ si' = 0
       /\ result' = ZeroResult
  ELSE /\ si' = si + 1
       /\ spc' = "check"
       /\ result' = r
       /\ UNCHANGED returned

\* the store answers the query for a resource named like the trigger
SyncCheck(fail) ==
  /\ spc = "check"
  /\ StoreCall(fail)
  /\ IF fail
     THEN SyncContinue([result EXCEPT !.errors = Append(@, "check")])
     ELSE IF ExistingResource(resources, triggers[si])
     THEN SyncContinue([result EXCEPT !.skipped = @ + 1])
     ELSE /\ spc' = "insert"
          /\ UNCHANGED <<si, result, returned>>
  /\ UNCHANGED <<now, calls, resources, bookings, history, triggers,
                 sessVars, sweepVars, adminVars>>

\* the store executes the insert into resources, or refuses it
SyncInsert(fail) ==
  /\ spc = "insert"
  /\ StoreCall(fail)
  /\ IF fail \/ NameTaken(resources, triggers[si])
     THEN /\ SyncContinue([result EXCEPT !.errors = Append(@, "create")])
          /\ UNCHANGED resources
     ELSE /\ resources' = Append(resources,
               [name |-> triggers[si], deleted_at |-> NULL])
          /\ SyncContinue([result EXCEPT !.success = @ + 1])
  /\ UNCHANGED <<now, calls, bookings, history, triggers,
                 sessVars, sweepVars, adminVars>>

\* ---------------------------------------------------------------- spec
Next ==
  \/ Tick
  \/ CreateResource
  \/ \E s \in Sessions, r \in ResourceIds : fetchResources(s, r)
  \/ \E s \in Sessions : onClose(s)
  \/ \E s \in Sessions, bookedBy \in NameInputs, branch \in BranchInputs,
        notes \in NotesInputs, buildLink \in LinkInputs,
        expiresAt \in ExpiryInputs :
       handleBook(s, bookedBy, branch, notes, buildLink, expiresAt)
  \/ \E s \in Sessions, fail \in BOOLEAN : BookHistory(s, fail)
  \/ \E s \in Sessions, fail \in BOOLEAN : handleRelease(s, fail)
  \/ \E s \in Sessions, fail \in BOOLEAN : ReleaseHistory(s, fail)
  \/ \E s \in Sessions, expiresAt \in ExpiryInputs, fail \in BOOLEAN :
       handleExtend(s, expiresAt, fail)
  \/ \E s \in Sessions, fail \in BOOLEAN : ExtendHistory(s, fail)
  \/ \E s \in Sessions, branch \in BranchInputs, notes \in NotesInputs,
        buildLink \in LinkInputs, fail \in BOOLEAN :
       handleEdit(s, branch, notes, buildLink, fail)
  \/ \E s \in Sessions, fail \in BOOLEAN : EditHistory(s, fail)
  \/ \E w \in Sweepers : SweepSelect(w)
  \/ \E w \in Sweepers : SweepCommit(w)
  \/ \E w \in Sweepers : SweepAbort(w)
  \/ \E a \in Admins, r \in ResourceIds : handleDelete(a, r)
  \/ \E a \in Admins, fail \in BOOLEAN : DeleteResource(a, fail)
  \/ \E a \in Admins, fail \in BOOLEAN : DeleteBookings(a, fail)
  \/ \E a \in Admins : DeleteSelect(a)
  \/ \E a \in Admins, fail \in BOOLEAN : DeleteHistory(a, fail)

Spec == Init /\ [][Next]_vars

\* ---------------------------------------------------------------- forms
\* The book and edit forms with the texts a user may type, blank ones and
\* changed ones included, on a store that only sessions act on.
FormNames == {<<"a">>, <<" ">>, <<>>}
FormBranches == {<<" ", "x">>, <<"y">>, <<" ">>}
FormNotes == {<<>>, <<"n">>}
FormLinks == {<<>>}
FormExpiries == {MaxTime + 1}

\* useState(resource.current_booking?.field || '')
InitialField(x) == IF x = NullText THEN <<>> ELSE x

\* what the edit form submits for a field: the text it was opened with,
\* or a text typed over it
EditedBranches(s) ==
  IF view[s].current_booking = <<>> THEN {}
  ELSE {InitialField(CurrentBooking(s).branch)} \cup FormBranches

EditedNotes(s) ==
  IF view[s].current_booking = <<>> THEN {}
  ELSE {InitialField(CurrentBooking(s).notes)} \cup FormNotes

EditedLinks(s) ==
  IF view[s].current_booking = <<>> THEN {}
  ELSE {InitialField(CurrentBooking(s).build_link)} \cup FormLinks

\* the Save button of the edit form: handleEdit on the form's fields
EditSubmit(s) ==
  \E branch \in EditedBranches(s), notes \in EditedNotes(s),
     buildLink \in EditedLinks(s) :
    handleEdit(s, branch, notes, buildLink, FALSE)

NextForm ==
  \/ CreateResource
  \/ \E s \in Sessions, r \in ResourceIds : fetchResources(s, r)
  \/ \E s \in Sessions : onClose(s)
  \/ \E s \in Sessions, bookedBy \in FormNames, branch \in FormBranches,
        notes \in FormNotes, buildLink \in FormLinks, expiresAt \in FormExpiries :
       handleBook(s, bookedBy, branch, notes, buildLink, expiresAt)
  \/ \E s \in Sessions : BookHistory(s, FALSE)
  \/ \E s \in Sessions : EditSubmit(s)
  \/ \E s \in Sessions : EditHistory(s, FALSE)

SpecForm == Init /\ [][NextForm]_vars

\* ---------------------------------------------------------------- cron
\* The function under the schedule '* * * * *' of the migration's note: it
\* is called again and again, by one scheduler that starts a run when the
\* run before it has ended, while users book, extend and release.  The runs
\* of the schedule are not among the calls that `calls` bounds; the users'
\* calls are held to LiveCalls, so that booking_history has room for the
\* rows of every run.
Cron == {"w1"}

LiveCalls == MaxHistory \div 2

\* a run of the schedule starts
CronSelect(w) == SweepOpen(w) /\ UNCHANGED calls

NextLive ==
  \/ Tick
  \/ CreateResource
  \/ \E s \in Sessions, r \in ResourceIds : fetchResources(s, r)
  \/ \E s \in Sessions : onClose(s)
  \/ \E s \in Sessions, bookedBy \in NameInputs, branch \in BranchInputs,
        notes \in NotesInputs, buildLink \in LinkInputs,
        expiresAt \in ExpiryInputs :
       calls < LiveCalls /\ handleBook(s, bookedBy, branch, notes, buildLink, expiresAt)
  \/ \E s \in Sessions : BookHistory(s, FALSE)
  \/ \E s \in Sessions : calls < LiveCalls /\ handleRelease(s, FALSE)
  \/ \E s \in Sessions : ReleaseHistory(s, FALSE)
  \/ \E s \in Sessions, expiresAt \in ExpiryInputs :
       calls < LiveCalls /\ handleExtend(s, expiresAt, FALSE)
  \/ \E s \in Sessions : ExtendHistory(s, FALSE)
  \/ \E w \in Cron : CronSelect(w)
  \/ \E w \in Cron : SweepCommit(w)
  \/ \E w \in Cron : SweepAbort(w)

\* the scheduler keeps calling, and a run whose transaction can commit
\* again and again does commit
SpecLive ==
  /\ Init /\ [][NextLive]_vars
  /\ \A w \in Cron : WF_vars(CronSelect(w)) /\ SF_vars(SweepCommit(w))

\* ---------------------------------------------------------------- import
\* The admin panel's import of the build triggers, run up to MaxRuns times
\* over one trigger list, on a store whose resources the admin creates and
\* soft-deletes.
TriggerLists ==
  UNION {[1..n -> TriggerNames] : n \in 0..MaxTriggers}

InitSync ==
  /\ now = 0
  /\ failures = 0
  /\ calls = 0
  /\ resources = <<>>
  /\ bookings = <<>>
  /\ history = <<>>
  /\ pc = [s \in Sessions |-> "idle"]
  /\ view = [s \in Sessions |-> NoView]
  /\ form = [s \in Sessions |-> NoForm]
  /\ error = [s \in Sessions |-> "none"]
  /\ wpc = [w \in Sweepers |-> "idle"]
  /\ cursor = [w \in Sweepers |-> <<>>]
  /\ wnow = [w \in Sweepers |-> 0]
  /\ ret = [w \in Sweepers |-> {}]
  /\ apc = [a \in Admins |-> "idle"]
  /\ atarget = [a \in Admins |-> 0]
  /\ adeleted = [a \in Admins |-> <<>>]
  /\ triggers \in TriggerLists
  /\ spc = "idle"
  /\ si = 0
  /\ result = ZeroResult
  /\ returned = <<>>

NextSync ==
  \/ CreateResource
  \/ syncTriggersToResources
  \/ \E fail \in BOOLEAN : SyncCheck(fail)
  \/ \E fail \in BOOLEAN : SyncInsert(fail)
  \/ \E a \in Admins, r \in ResourceIds : handleDelete(a, r)
  \/ \E a \in Admins, fail \in BOOLEAN : DeleteResource(a, fail)
  \/ \E a \in Admins, fail \in BOOLEAN : DeleteBookings(a, fail)
  \/ \E a \in Admins : DeleteSelect(a)

SpecSync == InitSync /\ [][NextSync]_vars

\* ---------------------------------------------------------------- properties
\* the steps of the handlers as they show on the variables
BookSucceeds(s) == pc[s] = "form" /\ pc'[s] = "book_history"

BookConflicts(s) ==
  /\ pc[s] = "form" /\ pc'[s] = "form"
  /\ error[s] # "conflict" /\ error'[s] = "conflict"

\* s has the book form of resource r open, or its book call is under way
InBookCall(s, r) ==
  /\ view[s].id = r
  /\ \/ pc[s] = "form" /\ view[s].status = "FREE"
     \/ pc[s] = "book_history"

HasBooking(s) == pc[s] # "idle" /\ view[s].current_booking # <<>>

ReleaseUpdates(s) == pc[s] = "form" /\ pc'[s] = "release_history"
ReleaseLogs(s) == pc[s] = "release_history" /\ pc'[s] = "idle"
ExtendUpdates(s) == pc[s] = "form" /\ pc'[s] = "extend_history"
ExtendLogs(s) == pc[s] = "extend_history" /\ pc'[s] = "idle"
EditUpdates(s) == pc[s] = "form" /\ pc'[s] = "edit_history"
EditLogs(s) == pc[s] = "edit_history" /\ pc'[s] = "idle"
BookLogs(s) == pc[s] = "book_history" /\ pc'[s] = "idle"

\* the sweep's transaction commits (an aborted one leaves history alone)
Commits(w) ==
  /\ wpc[w] = "loop" /\ wpc'[w] = "idle"
  /\ cursor[w] = <<>> \/ history' # history

CursorIds(w) == {cursor[w][k].id : k \in DOMAIN cursor[w]}

\* the history rows of booking b that carry one of the actions
RowsOf(hist, b, actions) ==
  {k \in DOMAIN hist : hist[k].booking_id = b /\ hist[k].action \in actions}

Terminal == {"RELEASE", "EXPIRED"}

\* the rows a step appends to booking_history
Appended == SubSeq(history', Len(history) + 1, Len(history'))

AppendsOnly == Len(history') >= Len(history) /\ SubSeq(history', 1, Len(history)) = history

\* unreleased bookings whose expires_at is in the past at time t
Overdue(bks, t) ==
  {i \in DOMAIN bks : bks[i].released_at = NULL /\ bks[i].expires_at <= t}

\* C1: mutual exclusion (I1) -- in every reachable state each resource has
\* at most one booking with released_at = NULL and deleted_at = NULL.
MutualExclusion ==
  \A r \in ResourceIds : Cardinality(ActiveOf(bookings, r)) <= 1

\* a resource holds its one active booking and a further book call on it
\* has been refused
MutualExclusionWitness ==
  \E s \in Sessions :
    /\ pc[s] = "form" /\ error[s] = "conflict"
    /\ Cardinality(ActiveOf(bookings, view[s].id)) = 1

\* C2: of two book calls under way on the same resource, which is not
\* soft-deleted, one succeeds only if the resource has no active booking,
\* and then inserts exactly one row, which becomes its active booking; one
\* is refused with a conflict only if the resource has an active booking,
\* and then inserts nothing.  So with no active booking at the start the
\* first to reach the store succeeds and the second is refused.
ConcurrentBook ==
  [][\A s1 \in Sessions : \A s2 \in Sessions \ {s1} : \A r \in DOMAIN resources :
       (InBookCall(s1, r) /\ InBookCall(s2, r) /\ resources[r].deleted_at = NULL) =>
         /\ BookSucceeds(s1) =>
              /\ ActiveOf(bookings, r) = {}
              /\ bookings' = Append(bookings, bookings'[Len(bookings')])
              /\ ActiveOf(bookings', r) = {Len(bookings')}
         /\ BookConflicts(s1) =>
              /\ ActiveOf(bookings, r) # {}
              /\ bookings' = bookings]_vars

\* s1's call has inserted the only booking the resource ever had, which is
\* still current, and s2, whose form shows the resource FREE, was refused
ConcurrentBookWitness ==
  \E s1 \in Sessions : \E s2 \in Sessions \ {s1} : \E r \in DOMAIN resources :
    /\ resources[r].deleted_at = NULL
    /\ pc[s1] = "book_history" /\ view[s1].id = r
    /\ pc[s2] = "form" /\ view[s2].id = r /\ view[s2].status = "FREE"
    /\ error[s2] = "conflict"
    /\ {i \in DOMAIN bookings : bookings[i].resource_id = r} = {form[s1].booking}
    /\ IsActive(bookings[form[s1].booking])
    /\ bookings[form[s1].booking].expires_at > now

\* C3: when two release calls, or a release call and a sweep, race on a
\* booking, the one that reaches the store after the booking is released
\* changes neither the booking row nor booking_history.
RaceLoserNoOp ==
  [][/\ \A s \in Sessions : \A s2 \in Sessions \ {s} :
          (/\ HasBooking(s) /\ HasBooking(s2)
           /\ CurrentBooking(s).id = CurrentBooking(s2).id
           /\ pc[s2] = "release_history"
           /\ bookings[CurrentBooking(s).id].released_at # NULL) =>
            /\ ReleaseUpdates(s) => bookings' = bookings
            /\ (ReleaseLogs(s) /\ RowsOf(history, CurrentBooking(s).id, Terminal) # {})
                 => history' = history
     /\ \A w \in Sweepers : \A s \in Sessions :
          (/\ Commits(w) /\ failures = 0
           /\ HasBooking(s) /\ pc[s] = "release_history"
           /\ CurrentBooking(s).id \in CursorIds(w)
           /\ bookings[CurrentBooking(s).id].released_at # NULL) =>
            /\ bookings'[CurrentBooking(s).id] = bookings[CurrentBooking(s).id]
            /\ RowsOf(history', CurrentBooking(s).id, Terminal)
                 = RowsOf(history, CurrentBooking(s).id, Terminal)]_vars

\* C4: in every reachable state each booking row agrees with the latest
\* history row that describes it, so that no booking change is without its
\* history row and no history row without the change it describes.
MutationWithHistory ==
  \A b \in DOMAIN bookings :
    LET rows == RowsOf(history, b, {"BOOK", "RELEASE", "EXTEND", "EDIT", "EXPIRED"})
    IN /\ rows # {}
       /\ LET last == history[CHOOSE k \in rows : \A j \in rows : j <= k]
          IN /\ last.booked_by = bookings[b].booked_by
             /\ last.branch = bookings[b].branch
             /\ last.notes = bookings[b].notes
             /\ last.build_link = bookings[b].build_link
             /\ last.expires_at = bookings[b].expires_at
             /\ last.released_at = bookings[b].released_at

\* C5: every book, release, extend and edit that completes as a success
\* appends exactly one history row for its booking with its tag, and every
\* sweep appends exactly one EXPIRED row for each booking it releases.
OneRowPerTransition ==
  [][/\ \A s \in Sessions :
          /\ BookLogs(s) =>
               /\ Len(Appended) = 1 /\ AppendsOnly
               /\ Appended[1].action = "BOOK"
               /\ Appended[1].booking_id = form[s].booking
          /\ ReleaseLogs(s) =>
               /\ Len(Appended) = 1 /\ AppendsOnly
               /\ Appended[1].action = "RELEASE"
               /\ Appended[1].booking_id = CurrentBooking(s).id
          /\ ExtendLogs(s) =>
               /\ Len(Appended) = 1 /\ AppendsOnly
               /\ Appended[1].action = "EXTEND"
               /\ Appended[1].booking_id = CurrentBooking(s).id
          /\ EditLogs(s) =>
               /\ Len(Appended) = 1 /\ AppendsOnly
               /\ Appended[1].action = "EDIT"
               /\ Appended[1].booking_id = CurrentBooking(s).id
     /\ \A w \in Sweepers :
          Commits(w) =>
            /\ Len(Appended) = Len(cursor[w]) /\ AppendsOnly
            /\ \A b \in CursorIds(w) :
                 Cardinality({k \in DOMAIN Appended :
                                Appended[k].booking_id = b
                                /\ Appended[k].action = "EXPIRED"}) = 1]_vars

\* C6: an extend or edit called on a booking that is already released is
\* refused: the handler does not execute its update and does not go on to
\* its history insert, so the booking row and booking_history stay as they
\* are.
NoChangeAfterRelease ==
  [][\A s \in Sessions :
       (HasBooking(s) /\ bookings[CurrentBooking(s).id].released_at # NULL) =>
         ~(ExtendUpdates(s) \/ EditUpdates(s))]_vars

\* C7: however sweeps overlap, booking_history holds at most one EXPIRED row
\* for a booking.
OneExpiredRow ==
  \A b \in DOMAIN bookings : Cardinality(RowsOf(history, b, {"EXPIRED"})) <= 1

SecondReleaseNoOp ==
  [][\A s \in Sessions :
       /\ (/\ ReleaseUpdates(s)
           /\ bookings[CurrentBooking(s).id].released_at # NULL
           /\ RowsOf(history, CurrentBooking(s).id, Terminal) # {}
           /\ \A s2 \in Sessions \ {s} :
                ~(/\ HasBooking(s2) /\ pc[s2] = "release_history"
                  /\ CurrentBooking(s2).id = CurrentBooking(s).id)
           /\ \A w \in Sweepers : CurrentBooking(s).id \notin CursorIds(w)) =>
            bookings'[CurrentBooking(s).id].released_at
              = bookings[CurrentBooking(s).id].released_at
       /\ (/\ ReleaseLogs(s) /\ failures' = 0
           /\ \E k \in RowsOf(history, CurrentBooking(s).id, Terminal) :
                history[k].released_at < form[s].now) =>
            history' = history]_vars

\* C10: I1 does not look at the clock -- a book call succeeds only if the
\* resource has no unreleased, undeleted booking, and one made while the
\* resource's active booking is past its expires_at is refused with a
\* conflict and inserts nothing.
BookTimeOblivious ==
  [][\A s \in Sessions :
       (pc[s] = "form" /\ view[s].status = "FREE") =>
         /\ BookSucceeds(s) => ActiveOf(bookings, view[s].id) = {}
         /\ ((BookSucceeds(s) \/ BookConflicts(s))
             /\ \E b \in ActiveOf(bookings, view[s].id) : bookings[b].expires_at <= now) =>
              BookConflicts(s) /\ bookings' = bookings]_vars

\* after one successful book, whose booking was past its expires_at from
\* the start and is still unswept, the only other call was refused
BookTimeObliviousWitness ==
  /\ calls = 2
  /\ Len(bookings) = 1
  /\ IsActive(bookings[1]) /\ bookings[1].expires_at = 0
  /\ \E s \in Sessions :
       /\ pc[s] = "form" /\ error[s] = "conflict"
       /\ view[s].id = bookings[1].resource_id /\ view[s].status = "FREE"

\* all the bookings of resource r
BookingsOf(bks, r) == {i \in DOMAIN bks : bks[i].resource_id = r}

\* C11: a release whose update the store executes, and a sweep that
\* commits, leave the resource of the active booking they release with no
\* active booking; a book on a resource all of whose bookings are released
\* succeeds, and a book on a resource that has an active booking is refused
\* with a conflict.
ReleaseFreesResource ==
  [][/\ \A s \in Sessions :
          (/\ ReleaseUpdates(s) /\ failures' = failures
           /\ IsActive(bookings[CurrentBooking(s).id])) =>
            /\ bookings'[CurrentBooking(s).id].released_at = now
            /\ ActiveOf(bookings', CurrentBooking(s).resource_id) = {}
     /\ \A w \in Sweepers :
          Commits(w) =>
            \A b \in CursorIds(w) :
              IsActive(bookings[b]) =>
                /\ bookings'[b].released_at # NULL
                /\ ActiveOf(bookings', bookings[b].resource_id) = {}
     /\ \A s \in Sessions :
          (/\ pc[s] = "form" /\ view[s].status = "FREE"
           /\ BookSucceeds(s) \/ BookConflicts(s)) =>
            /\ ActiveOf(bookings, view[s].id) # {} => BookConflicts(s)
            /\ (/\ BookingsOf(bookings, view[s].id) # {}
                /\ \A i \in BookingsOf(bookings, view[s].id) :
                     bookings[i].released_at # NULL) => BookSucceeds(s)]_vars

\* a booking of a resource was released and a later book on the resource
\* has inserted the next one
ReleaseFreesResourceWitness ==
  \E b1 \in DOMAIN bookings : \E b2 \in DOMAIN bookings :
    /\ b1 < b2
    /\ bookings[b1].resource_id = bookings[b2].resource_id
    /\ bookings[b1].released_at # NULL
    /\ RowsOf(history, b1, Terminal) # {}
    /\ IsActive(bookings[b2])

\* the bookings of r with released_at = NULL, deleted_at = NULL and
\* expires_at > t
CurrentOf(bks, t, r) ==
  {i \in DOMAIN bks :
     /\ bks[i].resource_id = r
     /\ bks[i].released_at = NULL /\ bks[i].deleted_at = NULL
     /\ bks[i].expires_at > t}

\* p is what the claim asks of the projection of r at time t
Projects(p, bks, t, r) ==
  /\ p.id = r
  /\ CurrentOf(bks, t, r) # {} =>
       /\ p.status = "LOCKED"
       /\ Len(p.current_booking) = 1
       /\ p.current_booking[1].id \in CurrentOf(bks, t, r)
       /\ p.current_booking[1].expires_at = bks[p.current_booking[1].id].expires_at
       /\ p.current_booking[1].branch = bks[p.current_booking[1].id].branch
       /\ p.current_booking[1].booked_by = bks[p.current_booking[1].id].booked_by
  /\ CurrentOf(bks, t, r) = {} =>
       /\ p.status = "FREE"
       /\ p.current_booking = <<>>

\* C12: for every resource and every store state the projection is LOCKED
\* with current_booking set exactly when the resource has a booking with
\* released_at = NULL, deleted_at = NULL and expires_at > now, and FREE
\* with no current_booking otherwise; and that is what a session receives
\* when it fetches.
ProjectionExact ==
  [][/\ \A r \in DOMAIN resources : Projects(Project(bookings, now, r), bookings, now, r)
     /\ \A s \in Sessions :
          (pc[s] = "idle" /\ pc'[s] = "form") =>
            Projects(view'[s], bookings, now, view'[s].id)]_vars

\* one form shows FREE a resource whose only booking is active but past
\* its expires_at, the other shows LOCKED a resource with a current booking
ProjectionExactWitness ==
  \E s1 \in Sessions : \E s2 \in Sessions \ {s1} :
    /\ pc[s1] = "form" /\ view[s1].status = "FREE"
    /\ BookingsOf(bookings, view[s1].id) # {}
    /\ \A i \in BookingsOf(bookings, view[s1].id) :
         IsActive(bookings[i]) /\ bookings[i].expires_at = 0
    /\ pc[s2] = "form" /\ view[s2].status = "LOCKED"
    /\ CurrentBooking(s2).id \in CurrentOf(bookings, now, view[s2].id)

\* C13: an edit changes only the fields it supplies -- a field the edit
\* form submits as it was opened (not typed over) keeps the value it has in
\* the store immediately before the edit, also when another caller changed
\* it after the form was opened.
EditKeepsUnsupplied ==
  [][\A s \in Sessions :
       EditUpdates(s) =>
         /\ form'[s].branch = InitialField(CurrentBooking(s).branch) =>
              bookings'[CurrentBooking(s).id].branch
                = bookings[CurrentBooking(s).id].branch
         /\ form'[s].notes = InitialField(CurrentBooking(s).notes) =>
              bookings'[CurrentBooking(s).id].notes
                = bookings[CurrentBooking(s).id].notes
         /\ form'[s].buildLink = InitialField(CurrentBooking(s).build_link) =>
              bookings'[CurrentBooking(s).id].build_link
                = bookings[CurrentBooking(s).id].build_link]_vars

\* a handler of s completes as a success: onSuccess() is called
ReportsSuccess(s) == BookLogs(s) \/ ReleaseLogs(s) \/ ExtendLogs(s) \/ EditLogs(s)

\* C14: an operation whose history insert fails is reported as failed -- a
\* handler that completes as a success has written its history row, and
\* one whose history insert wrote nothing stays on the form with an error.
HistoryFailureReported ==
  [][\A s \in Sessions :
       /\ ReportsSuccess(s) => Len(history') = Len(history) + 1
       /\ (/\ pc[s] \in {"book_history", "release_history",
                         "extend_history", "edit_history"}
           /\ pc'[s] # pc[s] /\ history' = history) =>
            pc'[s] = "form" /\ error'[s] # "none"]_vars

\* the EXPIRED rows a step appends for booking b
AppendedExpired(b) ==
  {k \in DOMAIN Appended :
     Appended[k].booking_id = b /\ Appended[k].action = "EXPIRED"}

\* C15: a sweep ends either with every booking of its cursor released at
\* its NOW() and one EXPIRED row appended for each, or, when it fails, with
\* bookings and booking_history as they were; and no EXPIRED row is for a
\* booking whose released_at is NULL.
SweepAllOrNothing ==
  [][/\ \A w \in Sweepers :
          (wpc[w] = "loop" /\ wpc'[w] = "idle") =>
            \/ /\ bookings' = bookings
               /\ history' = history
               /\ cursor[w] = <<>> \/ failures' = failures + 1
            \/ /\ cursor[w] # <<>>
               /\ AppendsOnly
               /\ Len(Appended) = Len(cursor[w])
               /\ \A b \in CursorIds(w) :
                    /\ Cardinality(AppendedExpired(b)) = 1
                    /\ bookings'[b].released_at = wnow[w]
     /\ \A k \in DOMAIN history' :
          history'[k].action = "EXPIRED" =>
            bookings'[history'[k].booking_id].released_at # NULL]_vars

\* one dead-on-arrival booking with its BOOK row; the only other call was
\* a sweep, which failed: the booking is unreleased and has no EXPIRED row
SweepAllOrNothingWitness ==
  /\ Len(resources) = 1 /\ Len(bookings) = 1
  /\ IsActive(bookings[1]) /\ bookings[1].expires_at = 0
  /\ calls = 2 /\ failures = 1
  /\ Len(history) = 1 /\ history[1].action = "BOOK"
  /\ \A s \in Sessions : pc[s] = "idle"
  /\ \A w \in Sweepers : wpc[w] = "idle"
  /\ \A a \in Admins : apc[a] = "idle"

\* a text that is empty or holds only blanks
IsBlank(t) == \A i \in DOMAIN t : t[i] = " "

\* C16: a book whose bookedBy or branch is empty or whitespace-only fails
\* with the validation error and inserts no booking row and no history
\* row: a book that inserts was given neither blank, the step that raises
\* the validation error leaves bookings and booking_history alone and the
\* form open, and no row of either table has a blank booked_by or branch.
BlankFieldsRejected ==
  [][/\ \A s \in Sessions :
          /\ BookSucceeds(s) =>
               ~IsBlank(form'[s].bookedBy) /\ ~IsBlank(form'[s].branch)
          /\ (/\ pc[s] = "form" /\ view[s].status = "FREE"
              /\ error'[s] = "required" /\ error[s] # "required") =>
               /\ bookings' = bookings /\ history' = history
               /\ pc'[s] = "form"
     /\ \A i \in DOMAIN bookings' :
          ~IsBlank(bookings'[i].booked_by) /\ ~IsBlank(bookings'[i].branch)
     /\ \A k \in DOMAIN history' :
          ~IsBlank(history'[k].booked_by) /\ ~IsBlank(history'[k].branch)]_vars

\* a book form shows the validation error after a first booking was made
\* on another resource, and the resource it is for has no booking at all
BlankFieldsRejectedWitness ==
  \E s \in Sessions :
    /\ pc[s] = "form" /\ view[s].status = "FREE" /\ error[s] = "required"
    /\ BookingsOf(bookings, view[s].id) = {}
    /\ \A k \in DOMAIN history : history[k].resource_id # view[s].id
    /\ Len(bookings) = 1

\* C17: a book whose expiresAt is not after the time of the call is
\* rejected, so that the row a book inserts has expires_at later than its
\* creation time.
ExpiryInFuture ==
  [][\A s \in Sessions :
       BookSucceeds(s) => bookings'[Len(bookings')].expires_at > now]_vars

\* C18: a book on a resource that is soft-deleted fails and creates no
\* booking, also when the form was opened before the resource was deleted:
\* a book inserts a row only for a resource whose deleted_at is NULL.
BookNeedsLiveResource ==
  [][\A s \in Sessions :
       BookSucceeds(s) =>
         /\ view[s].id \in DOMAIN resources
         /\ resources[view[s].id].deleted_at = NULL]_vars

\* C19: a resource is soft-deleted only when it has no active booking --
\* the step that sets its deleted_at finds no booking of it with
\* released_at = NULL and deleted_at = NULL; and a delete that is refused
\* changes nothing.
DeleteNeedsNoActiveBooking ==
  [][/\ \A r \in DOMAIN resources :
          (resources[r].deleted_at = NULL /\ resources'[r].deleted_at # NULL) =>
            ActiveOf(bookings, r) = {}
     /\ \A a \in Admins :
          (apc[a] = "idle" /\ apc'[a] = "idle" /\ calls' = calls + 1
           /\ UNCHANGED <<sessVars, sweepVars>>) =>
            UNCHANGED <<resources, bookings, history>>]_vars

\* C20: booking_history is append-only -- every step leaves the rows
\* already written as they are, in place, and at most adds rows after
\* them, so the history of any later state extends that of any earlier one.
HistoryAppendOnly ==
  [][/\ Len(history') >= Len(history)
     /\ \A k \in DOMAIN history : history'[k] = history[k]]_vars

\* the history holds, in this order, the rows of a book, of a release and
\* of the soft delete of the booking
HistoryAppendOnlyWitness ==
  /\ Len(history) = 3
  /\ history[1].action = "BOOK"
  /\ history[2].action \in Terminal
  /\ history[3].action = "DELETE"
  /\ history[1].booking_id = history[3].booking_id

\* C21: under the schedule every booking that is active with expires_at
\* <= now is eventually released, or extended past now by a caller first:
\* no expired booking stays active for ever.
AutoReleaseLive ==
  \A b \in 1..MaxBookings :
    (b \in DOMAIN bookings /\ IsActive(bookings[b]) /\ bookings[b].expires_at <= now)
      ~> (/\ b \in DOMAIN bookings
          /\ bookings[b].released_at # NULL \/ bookings[b].expires_at > now)

\* a booking that no caller released or extended was released by a run of
\* the schedule at a time not before its expires_at
AutoReleaseLiveWitness ==
  \E b \in DOMAIN bookings :
    /\ bookings[b].released_at # NULL
    /\ bookings[b].expires_at <= bookings[b].released_at
    /\ RowsOf(history, b, {"EXPIRED"}) # {}
    /\ RowsOf(history, b, {"RELEASE", "EXTEND"}) = {}
    /\ \A s \in Sessions : pc[s] = "idle"
    /\ \A w \in Sweepers : wpc[w] = "idle"

\* C22: a sweep in which the release of one booking fails goes on with the
\* other expired bookings and releases them -- when a run ends with a
\* failed statement, at most the one booking it failed on is left
\* unreleased, and the others of its cursor are released.
SweepContinuesPastFailure ==
  [][\A w \in Sweepers :
       (wpc[w] = "loop" /\ wpc'[w] = "idle" /\ failures' = failures + 1) =>
         Cardinality({b \in CursorIds(w) : bookings'[b].released_at = NULL}) <= 1]_vars

\* history row h carries the values of booking row b
Snapshots(h, b) ==
  /\ h.booked_by = b.booked_by
  /\ h.branch = b.branch
  /\ h.notes = b.notes
  /\ h.build_link = b.build_link
  /\ h.expires_at = b.expires_at
  /\ h.released_at = b.released_at

\* C23: snapshot fidelity -- no store call having failed, the history row
\* that a release, extend or edit writes, and every EXPIRED row that a
\* sweep writes, carries booked_by, branch, notes, build_link, expires_at
\* and released_at as the booking row has them in the store when the row
\* is written.
SnapshotFidelity ==
  [][failures' = 0 =>
       /\ \A s \in Sessions :
            (ReleaseLogs(s) \/ ExtendLogs(s) \/ EditLogs(s)) =>
              \A k \in DOMAIN Appended :
                Snapshots(Appended[k], bookings'[Appended[k].booking_id])
       /\ \A w \in Sweepers :
            Commits(w) =>
              \A k \in DOMAIN Appended :
                Snapshots(Appended[k], bookings'[Appended[k].booking_id])]_vars

\* C24: a sweep never sets released_at on, nor writes an EXPIRED row for,
\* a booking that is soft-deleted or whose expires_at is in the future --
\* every booking that a committing sweep changes or writes a row for has
\* deleted_at = NULL and expires_at <= NOW() in the store when the sweep
\* releases it.
SweepOnlyEligible ==
  [][\A w \in Sweepers :
       Commits(w) =>
         \A b \in DOMAIN bookings :
           (bookings'[b] # bookings[b] \/ AppendedExpired(b) # {}) =>
             /\ bookings[b].deleted_at = NULL
             /\ bookings[b].expires_at <= wnow[w]]_vars

\* C25: the view that a subscriber keeps by applying the booking
\* notifications one at a time, without refetching, equals the projection
\* of the store -- for every write to bookings (other than the insert of a
\* booking that is expired from the start) and every resource on the list,
\* the element that was the projection before the write is, once the
\* write's notifications are applied (in any order), the projection after
\* the write.
RealtimeViewExact ==
  [][(/\ now' = now
      /\ \A i \in DOMAIN bookings' \ DOMAIN bookings : bookings'[i].expires_at > now) =>
       \A r \in DOMAIN resources :
         (resources[r].deleted_at = NULL /\ resources'[r].deleted_at = NULL) =>
           \A q \in Orders(NotifiedIds(bookings, bookings')) :
             Deliver(Project(bookings, now, r), bookings, bookings', q)
               = Project(bookings', now, r)]_vars

\* resource r is in the gap at time t: it projects to FREE while a booking
\* of it is unreleased, so that the index refuses a book on it
Gap(bks, t, r) ==
  /\ Project(bks, t, r).status = "FREE"
  /\ \E i \in DOMAIN bks : bks[i].resource_id = r /\ bks[i].released_at = NULL

\* a step in which a booking of r gets its released_at set by a release
\* or by a sweep
ReleasesOn(r) ==
  /\ \/ \E s \in Sessions : ReleaseUpdates(s)
     \/ \E w \in Sweepers : Commits(w)
  /\ \E i \in DOMAIN bookings :
       /\ bookings[i].resource_id = r
       /\ bookings[i].released_at = NULL /\ bookings'[i].released_at # NULL

\* a step in which an extend moves the expires_at of a booking of r
ExtendsOn(r) ==
  /\ \E s \in Sessions : ExtendUpdates(s)
  /\ \E i \in DOMAIN bookings :
       bookings[i].resource_id = r /\ bookings'[i].expires_at # bookings[i].expires_at

\* C26: the gap between active and current -- while a resource projects to
\* FREE with an unreleased booking, a book on it is refused with a conflict
\* and inserts nothing, and the resource stays in the gap until a sweep or
\* a release sets released_at on its booking, or an extend moves the
\* booking's expires_at (after which the resource is LOCKED again).  This
\* is the statement with the extend added; GapUntilSweepOrRelease below is
\* the statement without it.
GapPersists ==
  [][\A r \in DOMAIN resources :
       Gap(bookings, now, r) =>
         /\ \A s \in Sessions :
              (/\ pc[s] = "form" /\ view[s].id = r /\ view[s].status = "FREE"
               /\ BookSucceeds(s) \/ BookConflicts(s)) =>
                BookConflicts(s) /\ bookings' = bookings
         /\ ~Gap(bookings', now', r) => ReleasesOn(r) \/ ExtendsOn(r)]_vars

\* the only booking of a resource was current when made and has expired by
\* the clock; it is unreleased, the resource projects to FREE, and a book
\* on it was refused
GapPersistsWitness ==
  \E s \in Sessions : \E r \in DOMAIN resources :
    /\ Gap(bookings, now, r)
    /\ resources[r].deleted_at = NULL
    /\ pc[s] = "form" /\ view[s].id = r /\ view[s].status = "FREE"
    /\ error[s] = "conflict"
    /\ \E b \in DOMAIN bookings :
         /\ BookingsOf(bookings, r) = {b}
         /\ IsActive(bookings[b])
         /\ bookings[b].expires_at = now /\ now > 0
    /\ \A k \in DOMAIN history : history[k].action = "BOOK"

\* C26 as first stated: the gap persists until a sweep or a release runs
GapUntilSweepOrRelease ==
  [][\A r \in DOMAIN resources :
       (Gap(bookings, now, r) /\ ~Gap(bookings', now', r)) => ReleasesOn(r)]_vars

\* C27: extend changes only expires_at of the target booking -- the step
\* in which the store executes the update of an extend leaves the
\* booking's resource_id, booked_by, branch, notes, build_link, released_at
\* and deleted_at, and every other booking row, as they are.
ExtendChangesOnlyExpiry ==
  [][\A s \in Sessions :
       ExtendUpdates(s) =>
         /\ DOMAIN bookings' = DOMAIN bookings
         /\ \A i \in DOMAIN bookings :
              IF i = CurrentBooking(s).id
              THEN bookings'[i] = [bookings[i] EXCEPT !.expires_at = bookings'[i].expires_at]
              ELSE bookings'[i] = bookings[i]]_vars

\* an extend has moved the expires_at of its booking while a second
\* booking, with another expires_at, exists
ExtendChangesOnlyExpiryWitness ==
  \E s \in Sessions :
    /\ pc[s] = "extend_history" /\ failures = 0
    /\ form[s].expiresAt # CurrentBooking(s).expires_at
    /\ bookings[CurrentBooking(s).id].expires_at = form[s].expiresAt
    /\ \E i \in DOMAIN bookings :
         i # CurrentBooking(s).id /\ bookings[i].expires_at # form[s].expiresAt

\* C28: extend accepts any new timestamp -- a form that shows a booking can
\* call extend with every timestamp, also one earlier than the booking's
\* expires_at or not after now; the call's update sets expires_at to the
\* given value, and its history insert appends one EXTEND row that carries
\* the value, after which the call reports success.
ExtendAcceptsAny ==
  [][\A s \in Sessions :
       /\ (pc[s] = "form" /\ HasBooking(s) /\ calls < MaxCalls) =>
            \A e \in ExpiryInputs : ENABLED handleExtend(s, e, FALSE)
       /\ (ExtendUpdates(s) /\ failures' = failures) =>
            bookings'[CurrentBooking(s).id].expires_at = form'[s].expiresAt
       /\ (ExtendLogs(s) /\ failures' = failures) =>
            /\ Len(Appended) = 1 /\ AppendsOnly
            /\ Appended[1].action = "EXTEND"
            /\ Appended[1].booking_id = CurrentBooking(s).id
            /\ Appended[1].expires_at = form[s].expiresAt]_vars

\* a booking made with a later expires_at was extended to time 0, which is
\* not after now: the row has the value and its EXTEND row carries it
ExtendAcceptsAnyWitness ==
  \E b \in DOMAIN bookings :
    /\ IsActive(bookings[b]) /\ bookings[b].expires_at = 0
    /\ \E k \in RowsOf(history, b, {"BOOK"}) : history[k].expires_at > 0
    /\ \E k \in RowsOf(history, b, {"EXTEND"}) : history[k].expires_at = 0

\* C29: soft-deleting a resource sets deleted_at on every not-yet-deleted
\* booking of the resource and appends exactly one DELETE row for each
\* booking it soft-deleted: the update leaves no booking of the resource
\* with deleted_at = NULL, and, no store call having failed, when the
\* delete has written its rows every soft-deleted booking of the resource
\* has one DELETE row, also when the resource is deleted a second time.
DeleteLogsOnce ==
  [][\A a \in Admins :
       /\ (apc[a] = "bookings" /\ apc'[a] = "select") =>
            \A i \in BookingsOf(bookings', atarget[a]) : bookings'[i].deleted_at # NULL
       /\ (apc[a] \in {"select", "log"} /\ apc'[a] = "idle" /\ failures' = 0) =>
            \A i \in BookingsOf(bookings, atarget[a]) :
              bookings[i].deleted_at # NULL =>
                Cardinality(RowsOf(history', i, {"DELETE"})) = 1]_vars

\* C30: no operation removes a row from resources or bookings -- in every
\* step every resource id and every booking id is kept, a booking keeps
\* its resource_id, and the delete of a resource changes nothing but
\* deleted_at, in the resource's row and in the rows of its bookings.
NoHardDelete ==
  [][/\ DOMAIN resources \subseteq DOMAIN resources'
     /\ DOMAIN bookings \subseteq DOMAIN bookings'
     /\ \A i \in DOMAIN bookings : bookings'[i].resource_id = bookings[i].resource_id
     /\ \A a \in Admins :
          (apc[a] \in {"resource", "bookings"} /\ apc'[a] # apc[a]) =>
            /\ \A r \in DOMAIN resources :
                 resources'[r] = [resources[r] EXCEPT !.deleted_at = resources'[r].deleted_at]
            /\ \A i \in DOMAIN bookings :
                 bookings'[i] = [bookings[i] EXCEPT !.deleted_at = bookings'[i].deleted_at]]_vars

\* a resource is soft-deleted together with its released booking: both
\* rows are still in their tables and the booking has its DELETE row
NoHardDeleteWitness ==
  \E r \in DOMAIN resources :
    /\ resources[r].deleted_at # NULL
    /\ \E b \in BookingsOf(bookings, r) :
         /\ bookings[b].deleted_at # NULL
         /\ bookings[b].released_at # NULL
         /\ RowsOf(history, b, {"DELETE"}) # {}

\* C31: no soft-deleted resource has an active booking (released_at = NULL
\* and deleted_at = NULL) -- in every reachable state in which no delete is
\* between its store calls, a resource whose deleted_at is set has no
\* active booking, also when no store call has failed.
DeletedResourceHasNoActive ==
  (failures = 0 /\ \A a \in Admins : apc[a] = "idle") =>
    \A r \in DOMAIN resources :
      resources[r].deleted_at # NULL => ActiveOf(bookings, r) = {}

\* the actions of the rows that a booking handler or the sweep writes
BookingActions == {"BOOK", "EXTEND", "EDIT", "RELEASE", "EXPIRED"}

\* C32: the history of every booking is well-formed -- no store call
\* having failed, once the book that made the booking has written its row
\* the booking's first row is BOOK, the booking has at most one terminal
\* row (RELEASE or EXPIRED), and no EXTEND or EDIT row stands after the
\* terminal row.
HistoryWellFormed ==
  failures = 0 =>
    \A b \in DOMAIN bookings :
      LET rows == RowsOf(history, b, BookingActions)
          ends == RowsOf(history, b, Terminal)
      IN /\ (rows # {} /\ \A s \in Sessions :
                              ~(pc[s] = "book_history" /\ form[s].booking = b)) =>
              history[CHOOSE k \in rows : \A j \in rows : k <= j].action = "BOOK"
         /\ Cardinality(ends) <= 1
         /\ \A k \in RowsOf(history, b, {"EXTEND", "EDIT"}) : \A j \in ends : k < j

\* C33: release is terminal -- in every step a booking whose released_at
\* is set keeps a released_at that is set, and one whose deleted_at is set
\* keeps a deleted_at that is set, so a booking that is not active does not
\* become active.
ReleaseIsTerminal ==
  [][\A i \in DOMAIN bookings :
       /\ i \in DOMAIN bookings'
       /\ bookings[i].released_at # NULL => bookings'[i].released_at # NULL
       /\ bookings[i].deleted_at # NULL => bookings'[i].deleted_at # NULL
       /\ ~IsActive(bookings[i]) => ~IsActive(bookings'[i])]_vars

\* the update of an extend or edit, called from a form opened while the
\* booking was active, has been executed on the booking after its release,
\* and the booking is still released
ReleaseIsTerminalWitness ==
  \E s \in Sessions :
    /\ pc[s] \in {"extend_history", "edit_history"} /\ failures = 0
    /\ CurrentBooking(s).released_at = NULL
    /\ bookings[CurrentBooking(s).id].released_at # NULL
    /\ RowsOf(history, CurrentBooking(s).id, Terminal) # {}

\* C34: at any time every active booking is either current, selected by
\* the query of the projector, or sweep-eligible, selected by the query of
\* the sweep, and never both or neither; and the projection of its
\* resource shows the booking exactly when it is current.
CurrentOrSweepEligible ==
  \A b \in DOMAIN bookings :
    IsActive(bookings[b]) =>
      /\ (b \in CurrentIds(bookings, now)) # (b \in ExpiredIds(bookings, now))
      /\ b \in CurrentIds(bookings, now)
           <=> Project(bookings, now, bookings[b].resource_id).current_booking
                 = <<Row(bookings, b)>>

\* of two active bookings one is current and the other, whose expires_at
\* is the present time, is sweep-eligible
CurrentOrSweepEligibleWitness ==
  \E b1 \in DOMAIN bookings : \E b2 \in DOMAIN bookings :
    /\ IsActive(bookings[b1]) /\ IsActive(bookings[b2])
    /\ b1 \in CurrentIds(bookings, now) /\ b1 \notin ExpiredIds(bookings, now)
    /\ b2 \in ExpiredIds(bookings, now) /\ b2 \notin CurrentIds(bookings, now)
    /\ bookings[b2].expires_at = now /\ now > 0

\* the step in which handleBook ends in its validation error
BookRejects(s) ==
  /\ pc[s] = "form" /\ pc'[s] = "form" /\ view[s].status = "FREE"
  /\ error[s] # "required" /\ error'[s] = "required"

\* C35: every BOOK row refers to a booking row that exists, with the
\* resource_id, booked_by, branch and expires_at it was created with, and
\* a book that fails appends no BOOK row -- the insert of a book stores the
\* values of the call, the BOOK row that the call then writes carries these
\* values and the id and resource_id of the row it inserted, a BOOK row is
\* written by no other step, and a book that ends in the validation error
\* or in a conflict leaves booking_history as it is.
BookRowFaithful ==
  [][/\ \A s \in Sessions :
          BookSucceeds(s) =>
            LET b == bookings'[Len(bookings')]
            IN /\ form'[s].booking = Len(bookings')
               /\ Len(bookings') = Len(bookings) + 1
               /\ b.resource_id = view[s].id
               /\ b.booked_by = Trim(form'[s].bookedBy)
               /\ b.branch = Trim(form'[s].branch)
               /\ b.expires_at = form'[s].expiresAt
     /\ \A s \in Sessions :
          (BookLogs(s) /\ history' # history) =>
            /\ Len(Appended) = 1 /\ AppendsOnly
            /\ Appended[1].action = "BOOK"
            /\ Appended[1].booking_id = form[s].booking
            /\ form[s].booking \in DOMAIN bookings
            /\ Appended[1].resource_id = bookings[form[s].booking].resource_id
            /\ Appended[1].booked_by = bookings[form[s].booking].booked_by
            /\ Appended[1].booked_by = Trim(form[s].bookedBy)
            /\ Appended[1].branch = Trim(form[s].branch)
            /\ Appended[1].expires_at = form[s].expiresAt
     /\ (\E k \in DOMAIN Appended : Appended[k].action = "BOOK") =>
          \E s \in Sessions : BookLogs(s)
     /\ \A s \in Sessions :
          (BookConflicts(s) \/ BookRejects(s)) =>
            history' = history /\ bookings' = bookings]_vars

\* a booking has its BOOK row, with the branch it was created with, and
\* has since been edited to another branch; a book on its resource from
\* another form was refused and wrote no row
BookRowFaithfulWitness ==
  \E k \in DOMAIN history : \E s \in Sessions :
    /\ history[k].action = "BOOK"
    /\ bookings[history[k].booking_id].branch # history[k].branch
    /\ bookings[history[k].booking_id].booked_by = history[k].booked_by
    /\ pc[s] = "form" /\ error[s] = "conflict"
    /\ view[s].id = history[k].resource_id
    /\ Cardinality(RowsOf(history, history[k].booking_id, {"BOOK"})) = 1
    /\ Len(bookings) = 1

\* C36: trigger sync is idempotent -- no store call having failed, the
\* second of two runs over a non-empty trigger list, the first of which
\* returned without errors, creates no resource and returns every trigger
\* counted as skipped and no error, also when the admin soft-deleted a
\* resource between the runs.
SyncIdempotent ==
  [][(/\ triggers # <<>>
      /\ Len(returned) = 1 /\ Len(returned') = 2
      /\ returned[1].errors = <<>>
      /\ failures' = 0) =>
       returned'[2] = [success |-> 0, skipped |-> Len(triggers), errors |-> <<>>]]_vars

====
